---- MODULE Spec2Model ----
(***************************************************************************)
(* Model of sentiment_generator.py: the driver mappers, the mean-reverting *)
(* simulator, the delta computation, the bounded history log and the       *)
(* aggregation run build_sentiment_payload.                                *)
(*                                                                         *)
(* Units.  A price change is counted in half percents (20 is +10%).        *)
(* mean_reversion and the noise draw are counted in hundredths.  Volumes   *)
(* are integers.  Every driver value, delta and total is an integer, as in *)
(* the program.                                                            *)
(***************************************************************************)
EXTENDS Integers, Sequences, FiniteSets, TLC

\* sentiment_generator.py:13
MAX_HISTORY_POINTS == 200

\* ---------------------------------------------------------------- bounds
\* Number of runs of build_sentiment_payload explored from an initial store.
MaxRuns == 2
\* Initial history logs are up to this many entries longer than the bound.
MaxExcess == 1

VARIABLES
    state_file,     \* content of STATE_FILE on disk
    history_file,   \* content of HISTORY_FILE on disk
    now,            \* the clock read by datetime.utcnow()
    runs,           \* runs of build_sentiment_payload started so far
    pc,             \* "idle", or how the last run ended: "returned" / "raised"
    prev_state,     \* the local prev_state of the last run (line 264)
    payload,        \* the payload the last run returned
    call,           \* a direct call of one function: [fn, arg, done, ret]
    last            \* a second direct call, compared with the first

vars == <<state_file, history_file, now, runs, pc, prev_state, payload, call, last>>

Drivers == {"fear_greed", "news", "social", "price_action", "on_chain", "liquidity"}

Min(a, b) == IF a < b THEN a ELSE b
Max(a, b) == IF a > b THEN a ELSE b

\* ------------------------------------------------------------- rounding
\* Python's round() of the exact rational n/d (d > 0): nearest integer, ties
\* to the even neighbour.
RoundHalfEven(n, d) ==
    LET q == n \div d
        r == n % d
    IN  IF 2 * r < d THEN q
        ELSE IF 2 * r > d THEN q + 1
        ELSE IF q % 2 = 0 THEN q ELSE q + 1

\* round() of a float computed with rounding error around the rational n/d:
\* off a tie the nearest integer; on an exact tie the float may lie on either
\* side of it, so either neighbour.
RoundFloat(n, d) ==
    IF 2 * (n % d) = d THEN {n \div d, (n \div d) + 1}
    ELSE {RoundHalfEven(n, d)}

\* ----------------------------------------------------------- JSON values
Num(n) == [t |-> "num", v |-> n]
Str == [t |-> "str", v |-> 0]
Absent == [t |-> "absent", v |-> 0]
AllAbsent == [k \in Drivers |-> Absent]

\* What a source answered: a value, or a failure of the request / the parse.
Ok(x) == [ok |-> TRUE, v |-> x]
FAIL == [ok |-> FALSE, v |-> 0]
FAILS == [ok |-> FALSE, v |-> <<>>]

\* --------------------------------------------------------- signal sources
get_fear_greed(resp) ==
    IF resp.ok THEN resp.v ELSE 50

get_btc_price_change(resp) ==
    IF resp.ok THEN resp.v ELSE 0

\* Mutant: the change is not clamped to +-10% before the mapping.
price_action_sentiment_NoClamp(change_24h) ==
    Max(0, Min(100, RoundHalfEven(100 + 3 * change_24h, 2)))

price_action_sentiment(change_24h) ==
    LET ch == Max(-20, Min(20, change_24h))
    IN  Max(0, Min(100, RoundHalfEven(100 + 3 * ch, 2)))

RECURSIVE SumSeq(_)
SumSeq(s) == IF s = <<>> THEN 0 ELSE Head(s) + SumSeq(Tail(s))

\* The samples kept by the list comprehension of line 86.
KeptVolumes(hist) == SelectSeq(hist, LAMBDA x : x.t = "num")

\* Mutant: the ratio is clamped at 0.25 only, not at 2.5.
get_liquidity_sentiment_NoUpperClamp(now_resp, hist_resp) ==
    IF ~now_resp.ok \/ ~hist_resp.ok THEN 50
    ELSE LET vols == KeptVolumes(hist_resp.v)
             n == Len(vols)
             s == SumSeq([i \in 1..n |-> vols[i].v])
             rn == now_resp.v * n
             rd == s
             cn == IF 4 * rn < rd THEN 1 ELSE rn
             cd == IF 4 * rn < rd THEN 4 ELSE rd
         IN  IF n = 0 THEN 50
             ELSE IF s <= 0 THEN 50
             ELSE Max(0, Min(100, RoundHalfEven(20 * cd + 30 * cn, cd)))

get_liquidity_sentiment(now_resp, hist_resp) ==
    IF ~now_resp.ok \/ ~hist_resp.ok THEN 50
    ELSE LET vols == KeptVolumes(hist_resp.v)
             n == Len(vols)
             s == SumSeq([i \in 1..n |-> vols[i].v])
             \* ratio = vol_now / (s / n) = rn / rd
             rn == now_resp.v * n
             rd == s
             cn == IF 4 * rn < rd THEN 1 ELSE IF 2 * rn > 5 * rd THEN 5 ELSE rn
             cd == IF 4 * rn < rd THEN 4 ELSE IF 2 * rn > 5 * rd THEN 2 ELSE rd
         IN  IF n = 0 THEN 50
             ELSE IF s <= 0 THEN 50
             ELSE Max(0, Min(100, RoundHalfEven(20 * cd + 30 * cn, cd)))

\* ------------------------------------------------------------ state store
EmptyDict ==
    [is_dict |-> TRUE, has_drivers |-> FALSE, drivers_is_dict |-> FALSE,
     drivers |-> AllAbsent, timestamp |-> 0]

load_previous_state(file) ==
    IF ~file.exists THEN EmptyDict
    ELSE IF ~file.parses THEN EmptyDict
    ELSE file.content

\* Mutant: the snapshot keeps the values clamped to [0,100].
save_state_Clamped(driver_values, ts) ==
    [exists |-> TRUE, parses |-> TRUE,
     content |-> [is_dict |-> TRUE, has_drivers |-> TRUE, drivers_is_dict |-> TRUE,
                  drivers |-> [k \in Drivers |-> Num(Max(0, Min(100, driver_values[k])))],
                  timestamp |-> ts]]

save_state(driver_values, ts) ==
    [exists |-> TRUE, parses |-> TRUE,
     content |-> [is_dict |-> TRUE, has_drivers |-> TRUE, drivers_is_dict |-> TRUE,
                  drivers |-> [k \in Drivers |-> Num(driver_values[k])],
                  timestamp |-> ts]]

\* Mutant: the difference is taken the wrong way round.
compute_deltas_Reversed(current, previous) ==
    LET has == previous.is_dict /\ previous.has_drivers
        prev_drivers == IF has THEN previous.drivers ELSE AllAbsent
    IN  [raised |-> has /\ ~previous.drivers_is_dict,
         deltas |-> [k \in Drivers |->
                        IF prev_drivers[k].t = "num"
                        THEN prev_drivers[k].v - current[k]
                        ELSE 0]]

\* Mutant: a driver with no previous value is compared with the baseline 50.
compute_deltas_FromBaseline(current, previous) ==
    LET has == previous.is_dict /\ previous.has_drivers
        prev_drivers == IF has THEN previous.drivers ELSE AllAbsent
    IN  [raised |-> has /\ ~previous.drivers_is_dict,
         deltas |-> [k \in Drivers |->
                        IF prev_drivers[k].t = "num"
                        THEN current[k] - prev_drivers[k].v
                        ELSE current[k] - 50]]

\* previous.get("drivers", {}) of line 132; .get on it raises when it is no dict.
compute_deltas(current, previous) ==
    LET has == previous.is_dict /\ previous.has_drivers
        prev_drivers == IF has THEN previous.drivers ELSE AllAbsent
    IN  [raised |-> has /\ ~previous.drivers_is_dict,
         deltas |-> [k \in Drivers |->
                        IF prev_drivers[k].t = "num"
                        THEN current[k] - prev_drivers[k].v
                        ELSE 0]]

\* ---------------------------------------------------------------- history
load_history(file) ==
    IF ~file.exists THEN <<>>
    ELSE IF ~file.parses THEN <<>>
    ELSE IF ~file.has_points THEN <<>>
    ELSE file.points

\* Mutant: the slice keeps the oldest n entries (points[:n]).
LastN_KeepsOldest(s, n) == IF Len(s) > n THEN SubSeq(s, 1, n) ELSE s

LastN(s, n) == IF Len(s) > n THEN SubSeq(s, Len(s) - n + 1, Len(s)) ELSE s

update_history(file, total_value, driver_values, ts) ==
    LET points == load_history(file)
        entry == [timestamp |-> ts, total |-> total_value,
                  drivers |-> [k \in Drivers |-> driver_values[k]]]
        appended == Append(points, entry)
    IN  [exists |-> TRUE, parses |-> TRUE, has_points |-> TRUE,
         points |-> IF Len(appended) > MAX_HISTORY_POINTS
                    THEN LastN(appended, MAX_HISTORY_POINTS)
                    ELSE appended]

\* -------------------------------------------------------------- simulator
_get_prev_driver_value(prev, name, default) ==
    IF ~prev.is_dict THEN default
    ELSE IF prev.has_drivers /\ ~prev.drivers_is_dict THEN default
    ELSE IF prev.has_drivers /\ prev.drivers[name].t = "num" THEN prev.drivers[name].v
    ELSE default

\* Mutant: the mean-reversion term is left out of the sum.
simulate_driver_NoReversion(name, prev, base, volatility, mean_reversion, noise) ==
    LET prev_val == _get_prev_driver_value(prev, name, base)
        new_val == 100 * prev_val + noise
    IN  {Max(0, Min(100, r)) : r \in RoundFloat(new_val, 100)}

\* The values simulate_driver can return for a noise draw of noise/100, with
\* mean_reversion/100: round() of a float sum, then the clamp of line 214.
simulate_driver(name, prev, base, volatility, mean_reversion, noise) ==
    LET prev_val == _get_prev_driver_value(prev, name, base)
        new_val == 100 * prev_val + noise + mean_reversion * (base - prev_val)
    IN  {Max(0, Min(100, r)) : r \in RoundFloat(new_val, 100)}

get_news_sentiment(prev, noise) == simulate_driver("news", prev, 50, 6, 40, noise)
get_social_sentiment(prev, noise) == simulate_driver("social", prev, 50, 8, 45, noise)
get_onchain_sentiment(prev, noise) == simulate_driver("on_chain", prev, 50, 5, 35, noise)

\* ------------------------------------------------------------- aggregator
\* Mutant: fear_greed and price_action weigh 0.15 like the others.
weights_AllEqual == [k \in Drivers |-> 15]

\* Lines 289-296, in hundredths.
weights ==
    [k \in Drivers |-> IF k \in {"fear_greed", "price_action"} THEN 20 ELSE 15]

RECURSIVE SumOver(_, _)
SumOver(f, S) ==
    IF S = {} THEN 0
    ELSE LET k == CHOOSE x \in S : TRUE IN f[k] + SumOver(f, S \ {k})

\* Lines 298-303: the values int(round(numerator / denom)) can take.
weighted_total(driver_values) ==
    LET numerator == SumOver([k \in Drivers |-> driver_values[k] * weights[k]], Drivers)
        denom == SumOver(weights, Drivers)
    IN  IF denom > 0 THEN RoundFloat(numerator, denom) ELSE {50}

labels ==
    [k \in Drivers |->
        CASE k = "fear_greed" -> "Fear & Greed"
          [] k = "news" -> "News Sentiment"
          [] k = "social" -> "Social Buzz"
          [] k = "price_action" -> "Price Action"
          [] k = "on_chain" -> "On-chain Activity"
          [] k = "liquidity" -> "Liquidity"]

NoPayload ==
    [timestamp |-> 0, total |-> [value |-> 0],
     drivers |-> [k \in Drivers |-> [label |-> labels[k], value |-> 0, delta |-> 0]],
     value |-> 0, fear_greed |-> 0, news_sentiment |-> 0, price_sentiment |-> 0,
     price_change_24h |-> 0, liquidity_sentiment |-> 0]

NoCall == [fn |-> "none", arg |-> <<>>, done |-> FALSE, ret |-> 0]

\* One run.  `in` is what the outside world answers during it: the three
\* source responses and the three noise draws.
build_sentiment_payload(in) ==
    /\ runs < MaxRuns
    /\ LET prev == load_previous_state(state_file)
           fg == get_fear_greed(in.fg)
           change_24h == get_btc_price_change(in.change)
           price_sent == price_action_sentiment(change_24h)
           liquidity == get_liquidity_sentiment(in.volume.now, in.volume.hist)
       IN  \E news \in get_news_sentiment(prev, in.n_news),
              social \in get_social_sentiment(prev, in.n_social),
              onchain \in get_onchain_sentiment(prev, in.n_on_chain) :
             LET driver_values ==
                     [k \in Drivers |->
                         CASE k = "fear_greed" -> fg
                           [] k = "news" -> news
                           [] k = "social" -> social
                           [] k = "price_action" -> price_sent
                           [] k = "on_chain" -> onchain
                           [] k = "liquidity" -> liquidity]
                 d == compute_deltas(driver_values, prev)
             IN  /\ prev_state' = prev
                 /\ runs' = runs + 1
                 /\ UNCHANGED <<call, last>>
                 /\ IF d.raised
                    THEN /\ pc' = "raised"
                         /\ UNCHANGED <<state_file, history_file, now, payload>>
                    ELSE \E total_value \in weighted_total(driver_values) :
                         /\ pc' = "returned"
                         /\ payload' =
                               [timestamp |-> now,
                                total |-> [value |-> total_value],
                                drivers |-> [k \in Drivers |->
                                                [label |-> labels[k],
                                                 value |-> driver_values[k],
                                                 delta |-> d.deltas[k]]],
                                value |-> total_value,
                                fear_greed |-> fg,
                                news_sentiment |-> news,
                                price_sentiment |-> price_sent,
                                price_change_24h |-> change_24h,
                                liquidity_sentiment |-> liquidity]
                         /\ state_file' = save_state(driver_values, now + 1)
                         /\ history_file' =
                               update_history(history_file, total_value, driver_values, now + 2)
                         /\ now' = now + 3

\* ------------------------------------------------------------ environment
Vol(n) == [t |-> "num", v |-> n]
VolNull == [t |-> "null", v |-> 0]

Neutral ==
    [fg |-> FAIL, change |-> FAIL, volume |-> [now |-> FAIL, hist |-> FAILS],
     n_news |-> 0, n_social |-> 0, n_on_chain |-> 0]

FGResponses == {Ok(-7), Ok(55), Ok(600)}
ChangeResponses == {Ok(-50), Ok(3), Ok(20)}
VolumeResponses ==
    {[now |-> Ok(30), hist |-> Ok(<<>>)],
     [now |-> Ok(30), hist |-> Ok(<<Vol(10), VolNull, Vol(20)>>)]}

\* The runs explored: at most one of the sources or draws departs from its
\* neutral answer (source failed, noise 0).
Inputs ==
    {Neutral}
    \cup {[Neutral EXCEPT !.fg = x] : x \in FGResponses}
    \cup {[Neutral EXCEPT !.change = x] : x \in ChangeResponses}
    \cup {[Neutral EXCEPT !.volume = x] : x \in VolumeResponses}
    \cup {[Neutral EXCEPT !.n_news = x] : x \in {-600, 600}}
    \cup {[Neutral EXCEPT !.n_social = x] : x \in {-800, 800}}
    \cup {[Neutral EXCEPT !.n_on_chain = x] : x \in {-500, 500}}

Content(is_dict, has_drivers, drivers_is_dict, drivers) ==
    [exists |-> TRUE, parses |-> TRUE,
     content |-> [is_dict |-> is_dict, has_drivers |-> has_drivers,
                  drivers_is_dict |-> drivers_is_dict, drivers |-> drivers,
                  timestamp |-> 0]]

\* Contents STATE_FILE can have before a run.
StateFiles ==
    {[exists |-> FALSE, parses |-> FALSE, content |-> EmptyDict],
     [exists |-> TRUE, parses |-> FALSE, content |-> EmptyDict],
     Content(FALSE, FALSE, FALSE, AllAbsent),
     Content(TRUE, FALSE, FALSE, AllAbsent),
     Content(TRUE, TRUE, FALSE, AllAbsent),
     Content(TRUE, TRUE, TRUE, AllAbsent),
     Content(TRUE, TRUE, TRUE, [k \in Drivers |-> Num(40)]),
     Content(TRUE, TRUE, TRUE,
             [k \in Drivers |-> IF k \in {"news", "liquidity"} THEN Str
                                ELSE IF k = "social" THEN Num(250)
                                ELSE IF k = "on_chain" THEN Num(-20)
                                ELSE Absent])}

InitEntry(i) == [timestamp |-> i, total |-> 50, drivers |-> [k \in Drivers |-> 50]]
InitLog(n) == [i \in 1..n |-> InitEntry(i)]

InitLens ==
    {0} \cup ((MAX_HISTORY_POINTS - 1)..(MAX_HISTORY_POINTS + MaxExcess))

\* Contents HISTORY_FILE can have before a run.
HistoryFiles ==
    {[exists |-> FALSE, parses |-> FALSE, has_points |-> FALSE, points |-> <<>>],
     [exists |-> TRUE, parses |-> FALSE, has_points |-> FALSE, points |-> <<>>],
     [exists |-> TRUE, parses |-> TRUE, has_points |-> FALSE, points |-> <<>>]}
    \cup {[exists |-> TRUE, parses |-> TRUE, has_points |-> TRUE, points |-> InitLog(n)] :
             n \in InitLens}

Init ==
    /\ state_file \in StateFiles
    /\ history_file \in HistoryFiles
    /\ now = Len(history_file.points) + 1
    /\ runs = 0
    /\ pc = "idle"
    /\ prev_state = EmptyDict
    /\ payload = NoPayload
    /\ call = NoCall
    /\ last = NoCall

Run == \E in \in Inputs : build_sentiment_payload(in)

Next == Run

Spec == Init /\ [][Next]_vars

\* ------------------------------------------- direct calls of the functions
\* The store as the direct-call specifications leave it: untouched.
StoreIdle ==
    /\ state_file = [exists |-> FALSE, parses |-> FALSE, content |-> EmptyDict]
    /\ history_file = [exists |-> FALSE, parses |-> FALSE, has_points |-> FALSE, points |-> <<>>]
    /\ now = 1
    /\ runs = 0
    /\ pc = "idle"
    /\ prev_state = EmptyDict
    /\ payload = NoPayload

store == <<state_file, history_file, now, runs, pc, prev_state, payload>>

Pending(fn, arg) == [fn |-> fn, arg |-> arg, done |-> FALSE, ret |-> 0]
Returned(c, ret) == [c EXCEPT !.done = TRUE, !.ret = ret]

\* Largest price change tried, in half percents, either sign.
MaxChange == 50
Changes == (-MaxChange)..MaxChange

InitPrice ==
    /\ StoreIdle
    /\ call \in {Pending("price_action_sentiment", <<c>>) : c \in Changes}
    /\ last \in {Pending("price_action_sentiment", <<c>>) : c \in Changes}

CallPrice ==
    /\ ~call.done
    /\ call' = Returned(call, price_action_sentiment(call.arg[1]))
    /\ last' = Returned(last, price_action_sentiment(last.arg[1]))
    /\ UNCHANGED store

SpecPrice == InitPrice /\ [][CallPrice]_vars

\* Largest current volume tried, and longest list of historical samples.
MaxVolume == 30
MaxSamples == 2
SampleValues == {VolNull, Vol(-3), Vol(0), Vol(4), Vol(10)}
NowResponses == {FAIL} \cup {Ok(v) : v \in (-1)..MaxVolume}
HistResponses ==
    {FAILS} \cup UNION {{Ok(s) : s \in [1..n -> SampleValues]} : n \in 0..MaxSamples}

InitLiquidity ==
    /\ StoreIdle
    /\ call \in {Pending("get_liquidity_sentiment", <<n, h>>) :
                    n \in NowResponses, h \in HistResponses}
    /\ last = NoCall

CallLiquidity ==
    /\ ~call.done
    /\ call' = Returned(call, get_liquidity_sentiment(call.arg[1], call.arg[2]))
    /\ UNCHANGED last
    /\ UNCHANGED store

SpecLiquidity == InitLiquidity /\ [][CallLiquidity]_vars

\* random.uniform(-volatility, volatility) of line 209, in hundredths: the
\* draws tried are the multiples of 0.25 in the interval.
uniform(a, b) == {n \in (100 * a)..(100 * b) : n % 25 = 0}

Snapshot(v) ==
    [is_dict |-> TRUE, has_drivers |-> TRUE, drivers_is_dict |-> TRUE,
     drivers |-> [k \in Drivers |-> v], timestamp |-> 0]

\* Previous values tried lie in -MaxOutside .. 100 + MaxOutside.
MaxOutside == 30
SimPrevValues == {-MaxOutside, 0, 1, 37, 40, 50, 60, 99, 100, 100 + MaxOutside}
SimPrevStates ==
    {EmptyDict,
     [EmptyDict EXCEPT !.is_dict = FALSE],
     [EmptyDict EXCEPT !.has_drivers = TRUE],
     Snapshot(Absent), Snapshot(Str)}
    \cup {Snapshot(Num(v)) : v \in SimPrevValues}
SimConfigs ==
    {[volatility |-> 6, mean_reversion |-> 40],
     [volatility |-> 8, mean_reversion |-> 45],
     [volatility |-> 5, mean_reversion |-> 35],
     [volatility |-> 0, mean_reversion |-> 100],
     [volatility |-> 2, mean_reversion |-> 0]}
SimBases == {0, 30, 50, 100}

\* arg = <<name, prev_state, base, volatility, mean_reversion>>
InitSimulate ==
    /\ StoreIdle
    /\ call \in {Pending("simulate_driver",
                         <<name, prev, base, c.volatility, c.mean_reversion>>) :
                    name \in {"news", "social", "on_chain"}, prev \in SimPrevStates,
                    base \in SimBases, c \in SimConfigs}
    /\ last = NoCall

\* The noise drawn inside the call is kept in last.ret.
CallSimulate ==
    /\ ~call.done
    /\ \E noise \in uniform(-call.arg[4], call.arg[4]) :
         \E r \in simulate_driver(call.arg[1], call.arg[2], call.arg[3],
                                  call.arg[4], call.arg[5], noise) :
            /\ call' = Returned(call, r)
            /\ last' = Returned(Pending("random.uniform", <<-call.arg[4], call.arg[4]>>), noise)
    /\ UNCHANGED store

SpecSimulate == InitSimulate /\ [][CallSimulate]_vars

TotalValues == {-7, 0, 37, 50, 100, 600}

InitTotal ==
    /\ StoreIdle
    /\ call \in {Pending("weighted_total", <<dv>>) : dv \in [Drivers -> TotalValues]}
    /\ last = NoCall

CallTotal ==
    /\ ~call.done
    /\ \E total_value \in weighted_total(call.arg[1]) :
         call' = Returned(call, total_value)
    /\ UNCHANGED last
    /\ UNCHANGED store

SpecTotal == InitTotal /\ [][CallTotal]_vars

\* ================================================================= claims

\* C1: after a run that returned, each of the six driver values and the total
\* is an integer in [0,100], in the payload, in the saved snapshot and in the
\* appended history entry.
C1_AllValuesInRange ==
    pc = "returned" =>
        LET entry == history_file.points[Len(history_file.points)]
        IN  /\ payload.total.value \in 0..100
            /\ payload.value \in 0..100
            /\ entry.total \in 0..100
            /\ \A k \in Drivers :
                  /\ payload.drivers[k].value \in 0..100
                  /\ state_file.content.drivers[k].v \in 0..100
                  /\ entry.drivers[k] \in 0..100

\* C2: a run leaves the stored log equal to the last 200 entries of the old
\* log followed by the one new entry: the new entry is last, the kept entries
\* keep their order, the length is min(len + 1, 200), a 200-entry log loses
\* its first entry, and the log never exceeds 200 entries.
C2_HistoryKeepsLast200 ==
    [][(runs' = runs + 1 /\ pc' = "returned") =>
          LET L == IF history_file.exists /\ history_file.parses /\ history_file.has_points
                   THEN history_file.points
                   ELSE <<>>
              new == history_file'.points
              m == Len(new)
          IN  /\ history_file'.exists /\ history_file'.parses /\ history_file'.has_points
              /\ m = Min(Len(L) + 1, 200)
              /\ m <= 200
              /\ new[m].total = payload'.total.value
              /\ new[m].drivers = [k \in Drivers |-> payload'.drivers[k].value]
              /\ new[m].timestamp >= now
              /\ \A i \in 1..(m - 1) : new[i] = L[Len(L) - (m - 1) + i]
              /\ (Len(L) = 200 => new[1] = L[2])]_vars

\* C2 witness: one run on a 200-entry log returned; the log still has 200
\* entries and starts with what was the second entry.
C2_Witness ==
    /\ runs = 1
    /\ pc = "returned"
    /\ Len(history_file.points) = 200
    /\ history_file.points[1].timestamp = 2
    /\ history_file.points[200].timestamp > 200

\* C3: whatever the persisted snapshot and history hold and whatever the
\* sources answer, a run returns a complete payload: a total and, for each of
\* the six drivers, a label, a value and a delta.
C3_RunAlwaysReturns ==
    runs > 0 =>
        /\ pc = "returned"
        /\ DOMAIN payload.drivers = Drivers
        /\ \A k \in Drivers :
              /\ payload.drivers[k].label = labels[k]
              /\ payload.drivers[k].value \in Int
              /\ payload.drivers[k].delta \in Int

\* C4: when two runs in a row return, every delta of the second is its value
\* minus the value of the first, and the snapshot the second read is the one
\* the first saved.
C4_DeltaAgainstPreviousRun ==
    [][(pc = "returned" /\ pc' = "returned" /\ runs' = runs + 1) =>
          /\ \A k \in Drivers :
                payload'.drivers[k].delta =
                    payload'.drivers[k].value - payload.drivers[k].value
          /\ prev_state' = state_file.content
          /\ prev_state'.drivers = [k \in Drivers |-> Num(payload.drivers[k].value)]]_vars

\* C4 witness: a second run returned with fear_greed 600 after a first run
\* saved 55.
C4_Witness ==
    /\ runs = 2
    /\ pc = "returned"
    /\ prev_state.drivers["fear_greed"] = Num(55)
    /\ payload.drivers["fear_greed"].value = 600
    /\ payload.drivers["fear_greed"].delta = 545

\* C5: a run that finds neither a snapshot nor a history returns a complete
\* payload with every delta 0, and leaves a history of length 1 and a snapshot
\* holding the six current values.
C5_FirstRun ==
    [][(~state_file.exists /\ ~history_file.exists /\ runs' = runs + 1) =>
          /\ pc' = "returned"
          /\ DOMAIN payload'.drivers = Drivers
          /\ \A k \in Drivers :
                /\ payload'.drivers[k].delta = 0
                /\ payload'.drivers[k].label = labels[k]
          /\ history_file'.exists /\ history_file'.parses /\ history_file'.has_points
          /\ Len(history_file'.points) = 1
          /\ state_file'.exists /\ state_file'.parses
          /\ state_file'.content.drivers =
                [k \in Drivers |-> Num(payload'.drivers[k].value)]]_vars

\* C5 witness: the first run on an empty store returned, with a value far
\* from the baseline.
C5_Witness ==
    /\ runs = 1
    /\ pc = "returned"
    /\ prev_state = EmptyDict
    /\ now = 4
    /\ Len(history_file.points) = 1
    /\ payload.drivers["fear_greed"].value = 600
    /\ payload.drivers["fear_greed"].delta = 0

\* C6: simulate_driver returns clamp(round(prev + noise + mean_reversion *
\* (base - prev)), 0, 100), with noise in [-volatility, +volatility] and prev
\* the snapshot's value of the driver, or base when there is none or it is not
\* a number; with mean_reversion 1.0 and volatility 0 it returns base.
C6_SimulateDriver ==
    (call.fn = "simulate_driver" /\ call.done) =>
        LET name == call.arg[1]
            prev == call.arg[2]
            base == call.arg[3]
            volatility == call.arg[4]
            mean_reversion == call.arg[5]
            noise == last.ret
            numeric == /\ prev.is_dict /\ prev.has_drivers /\ prev.drivers_is_dict
                       /\ prev.drivers[name].t = "num"
            pv == IF numeric THEN prev.drivers[name].v ELSE base
            x == 100 * pv + noise + mean_reversion * (base - pv)
        IN  /\ -100 * volatility <= noise
            /\ noise <= 100 * volatility
            /\ \E r \in ((x \div 100) - 1)..((x \div 100) + 1) :
                  /\ 100 * r - x <= 50
                  /\ x - 100 * r <= 50
                  /\ call.ret = IF r < 0 THEN 0 ELSE IF r > 100 THEN 100 ELSE r
            /\ (mean_reversion = 100 /\ volatility = 0) => call.ret = base

\* C6 witness: from a previous value of 130, base 30, mean_reversion 1.0 and
\* volatility 0, the call returned 30.
C6_Witness ==
    /\ call.fn = "simulate_driver"
    /\ call.done
    /\ call.arg[2] = Snapshot(Num(130))
    /\ call.arg[3] = 30
    /\ call.arg[4] = 0
    /\ call.arg[5] = 100
    /\ call.ret = 30

\* C7: the total is the weighted average of the six driver values, weights
\* 0.20 for fear_greed and price_action and 0.15 for the others, rounded to a
\* nearest integer; six equal values v give v; the total lies between the
\* least and the greatest driver value.
C7_WeightedTotal ==
    (call.fn = "weighted_total" /\ call.done) =>
        LET dv == call.arg[1]
            x == 20 * dv["fear_greed"] + 20 * dv["price_action"] + 15 * dv["news"]
                 + 15 * dv["social"] + 15 * dv["on_chain"] + 15 * dv["liquidity"]
        IN  /\ 100 * call.ret - x <= 50
            /\ x - 100 * call.ret <= 50
            /\ \A v \in TotalValues : (\A k \in Drivers : dv[k] = v) => call.ret = v
            /\ \E k \in Drivers : dv[k] <= call.ret
            /\ \E k \in Drivers : call.ret <= dv[k]

\* C7 witness: six drivers at 50 gave the total 50.
C7_Witness ==
    /\ call.fn = "weighted_total"
    /\ call.done
    /\ \A k \in Drivers : call.arg[1][k] = 50
    /\ call.ret = 50

\* C8: price_action_sentiment returns 50 + 3 * change, the change clamped to
\* [-10, +10], rounded to the nearest integer: 50 for 0, 80 for every change
\* >= 10, 20 for every change <= -10, never outside [20, 80], and never less
\* for a greater change.  (Changes are in half percents.)
C8_PriceAction ==
    (call.fn = "price_action_sentiment" /\ call.done /\ last.done) =>
        LET c == call.arg[1]
            c0 == last.arg[1]
            ch == IF c < -20 THEN -20 ELSE IF c > 20 THEN 20 ELSE c
        IN  /\ 2 * call.ret - (100 + 3 * ch) \in {-1, 0, 1}
            /\ (c = 0 => call.ret = 50)
            /\ (c = 20 => call.ret = 80)
            /\ (c = -20 => call.ret = 20)
            /\ (c >= 20 => call.ret = 80)
            /\ (c <= -20 => call.ret = 20)
            /\ call.ret \in 20..80
            /\ (c0 <= c => last.ret <= call.ret)
            /\ ((c >= 20 /\ c0 >= 20) => call.ret = last.ret)
            /\ ((c <= -20 /\ c0 <= -20) => call.ret = last.ret)

\* C8 witness: +25% and +10% were both mapped, to the same score 80.
C8_Witness ==
    /\ call.fn = "price_action_sentiment"
    /\ call.done
    /\ last.done
    /\ call.arg = <<50>>
    /\ last.arg = <<20>>
    /\ call.ret = 80
    /\ last.ret = 80

C10_OutputsAgree ==
    pc = "returned" =>
        LET entry == history_file.points[Len(history_file.points)]
        IN  /\ \A k \in Drivers :
                  /\ state_file.content.drivers[k] = Num(payload.drivers[k].value)
                  /\ entry.drivers[k] = payload.drivers[k].value
            /\ DOMAIN state_file.content.drivers = Drivers
            /\ "total" \notin DOMAIN state_file.content
            /\ "delta" \notin DOMAIN state_file.content
            /\ "total" \notin DOMAIN state_file.content.drivers
            /\ DOMAIN entry.drivers = Drivers
            /\ entry.total = payload.total.value
            /\ payload.value = payload.total.value
            /\ payload.fear_greed = payload.drivers["fear_greed"].value
            /\ payload.news_sentiment = payload.drivers["news"].value
            /\ payload.price_sentiment = payload.drivers["price_action"].value
            /\ payload.liquidity_sentiment = payload.drivers["liquidity"].value

\* C10 witness: a second run returned with fear_greed out of range, saved and
\* logged as it is.
C10_Witness ==
    /\ runs = 2
    /\ pc = "returned"
    /\ payload.fear_greed = 600
    /\ state_file.content.drivers["fear_greed"] = Num(600)
    /\ Len(history_file.points) >= 2

====
